---- MODULE Spec2Model ----
(***************************************************************************)
(* A model of app.py: the course catalog kept in course_catalog.json and   *)
(* the Flask handlers that read and rewrite it.                            *)
(*                                                                         *)
(* Text is a sequence of one-character strings, so that str.strip() is     *)
(* computed and not assumed.  A form is a function from the field names    *)
(* the client sent to their text: request.form.get(k) is None exactly when *)
(* k is outside its domain.                                                *)
(*                                                                         *)
(* Each handler is cut at the points where it touches the backing file     *)
(* (the existence test and read of load_courses, the truncating open and   *)
(* the dump of save_courses_to_file); the code between two such points is  *)
(* one step.  Spec lets the requests of Requests interleave at those       *)
(* points; SeqSpec serves one request at a time.                           *)
(***************************************************************************)
EXTENDS Integers, Sequences, FiniteSets, TLC

VARIABLES
    file,             \* the backing file COURSE_FILE
    pc,               \* where each request stands in its handler
    route,            \* the view function serving the request
    code,             \* the <code> of the URL (details, delete)
    form,             \* request.form of a POST /add_course
    new_course,       \* add_course: the record built from the form
    courses,          \* the handler's local: what load_courses() returned
    updated_courses,  \* the list handed to save_courses_to_file
    written,          \* how the request's write of the file ended
    flashed,          \* the notices the request flashed
    response,         \* what the view function returned
    pre,              \* history: the file when the request arrived
    prev              \* history: the request answered last, if it rewrote the file

vars == <<file, pc, route, code, form, new_course, courses, updated_courses,
          written, flashed, response, pre, prev>>

-----------------------------------------------------------------------------
(* Bounds and input domains *)

\* the longest catalog the requests build
MaxCourses == 3

\* the most fields a posted form lacks
MaxMissing == 1

Requests == {1, 2}

Whitespace == {" ", "\t"}

NameInputs == {<<" ">>, <<" ", "n", "\t">>, <<"m">>}
CodeInputs == {<<>>, <<"c", " ">>, <<"d">>}
InstructorInputs == {<<"\t", " ">>, <<"i">>}
SemesterInputs == {<<" ">>}

UrlCodes == {<<"c">>, <<"d">>, <<"e">>}

FormFields == {"name", "code", "instructor", "semester"}

\* a form with every field
FullForms ==
    [name : NameInputs, code : CodeInputs, instructor : InstructorInputs,
     semester : SemesterInputs]

\* the forms a client can post: a full form less the fields it leaves out
Forms ==
    {[k \in FormFields \ K |-> f[k]] :
        f \in FullForms,
        K \in {E \in SUBSET FormFields : Cardinality(E) <= MaxMissing}}

-----------------------------------------------------------------------------
(* The text json.dump(courses, file, indent=4) writes *)

\* a tab is written as the escape \t, every other character as itself
RECURSIVE TextLen(_)
TextLen(s) ==
    IF s = <<>> THEN 0
    ELSE (IF Head(s) = "\t" THEN 2 ELSE 1) + TextLen(Tail(s))

\* one object: the braces, the four keys with their indentation and quotes
\* (100 characters) and the four values
ObjectLen(c) ==
    100 + TextLen(c.name) + TextLen(c.code) + TextLen(c.instructor)
        + TextLen(c.semester)

RECURSIVE ObjectsLen(_)
ObjectsLen(cs) ==
    IF cs = <<>> THEN 0 ELSE ObjectLen(Head(cs)) + 2 + ObjectsLen(Tail(cs))

\* "[]" for the empty list; else "[\n", the objects joined by ",\n", "\n]"
JsonLen(cs) == IF cs = <<>> THEN 2 ELSE 2 + ObjectsLen(cs)

-----------------------------------------------------------------------------
(* The backing file *)

\* the file is absent, holds the JSON text of a catalog, or holds bytes that
\* json.load rejects (an empty or partly overwritten file); size is its length
COURSE_FILE_Absent == [kind |-> "absent", data |-> <<>>, size |-> 0]
COURSE_FILE_Unreadable(n) == [kind |-> "unreadable", data |-> <<>>, size |-> n]
COURSE_FILE_Holding(cs) == [kind |-> "catalog", data |-> cs, size |-> JsonLen(cs)]

\* a load_courses whose except branch hands back a placeholder record
load_courses_placeholder(f) ==
    IF f.kind = "absent" THEN <<>>
    ELSE IF f.kind = "unreadable"
    THEN <<[name |-> <<>>, code |-> <<>>, instructor |-> <<>>, semester |-> <<>>]>>
    ELSE f.data

\* load_courses(): [] when the file is missing, [] when reading or parsing
\* raises, else the parsed list
load_courses(f) ==
    IF f.kind = "absent" THEN <<>>
    ELSE IF f.kind = "unreadable" THEN <<>>
    ELSE f.data

\* open(COURSE_FILE, 'w'): the file exists and is empty from here on
OpenForWrite(f) == COURSE_FILE_Unreadable(0)

\* a dump that leaves alone what another writer has put in the file
DumpKeepsNewer(f, cs) ==
    IF f.kind = "catalog" THEN f ELSE COURSE_FILE_Holding(cs)

\* json.dump(cs, file) and the close of the with block: the text goes to
\* offset 0 of the file as it is now; bytes another writer put there since
\* this writer's open survive beyond the end of the text
Dump(f, cs) ==
    IF JsonLen(cs) >= f.size THEN COURSE_FILE_Holding(cs)
    ELSE COURSE_FILE_Unreadable(f.size)

-----------------------------------------------------------------------------
(* Pure helpers *)

RECURSIVE LStrip(_)
LStrip(s) ==
    IF s = <<>> THEN s
    ELSE IF Head(s) \in Whitespace THEN LStrip(Tail(s)) ELSE s

RECURSIVE RStrip(_)
RStrip(s) ==
    IF s = <<>> THEN s
    ELSE IF s[Len(s)] \in Whitespace THEN RStrip(SubSeq(s, 1, Len(s) - 1)) ELSE s

\* a strip that leaves trailing whitespace
StripLeading(s) == LStrip(s)

\* str.strip()
Strip(s) == RStrip(LStrip(s))

\* a filter that drops the first match only
RECURSIVE WithoutFirstCode(_, _)
WithoutFirstCode(cs, c) ==
    IF cs = <<>> THEN <<>>
    ELSE IF Head(cs).code # c THEN <<Head(cs)>> \o WithoutFirstCode(Tail(cs), c)
    ELSE Tail(cs)

\* [course for course in cs if course['code'] != c]
RECURSIVE WithoutCode(_, _)
WithoutCode(cs, c) ==
    IF cs = <<>> THEN <<>>
    ELSE IF Head(cs).code # c THEN <<Head(cs)>> \o WithoutCode(Tail(cs), c)
    ELSE WithoutCode(Tail(cs), c)

\* an insert at the front
PrependCourse(cs, data) == <<data>> \o cs

\* courses.append(data)
AppendCourse(cs, data) == Append(cs, data)

\* a lookup that keeps the last match
RECURSIVE LastWithCode(_, _)
LastWithCode(cs, c) ==
    IF cs = <<>> THEN <<>>
    ELSE IF cs[Len(cs)].code = c THEN <<cs[Len(cs)]>>
    ELSE LastWithCode(SubSeq(cs, 1, Len(cs) - 1), c)

\* next((course for course in cs if course['code'] == c), None), as a
\* sequence of at most one record
RECURSIVE FirstWithCode(_, _)
FirstWithCode(cs, c) ==
    IF cs = <<>> THEN <<>>
    ELSE IF Head(cs).code = c THEN <<Head(cs)>>
    ELSE FirstWithCode(Tail(cs), c)

NoCourse == [name |-> <<>>, code |-> <<>>, instructor |-> <<>>, semester |-> <<>>]
NoForm == <<>>
NoCode == <<>>

\* flash(message, category)
Notice(category, text, arg) == [category |-> category, text |-> text, arg |-> arg]
NotFoundNotice(c) == Notice("error", "No course found with code '{code}'.", c)
RequiredNotice == Notice("error", "Fields marked with * are the required fields.", <<>>)
AddedNotice == Notice("success", "Course added successfully!", <<>>)
DeletedNotice == Notice("success", "Course deleted successfully!", <<>>)

\* what a view function returns
Render(template, data) == [kind |-> "render", target |-> template, data |-> data]
RedirectToCatalog == [kind |-> "redirect", target |-> "course_catalog", data |-> <<>>]
\* the except branch logs and falls off the end: the view returns None
NoResponse == [kind |-> "none", target |-> "", data |-> <<>>]
NotYet == [kind |-> "pending", target |-> "", data |-> <<>>]

NoPrev == [route |-> "", code |-> NoCode, new_course |-> NoCourse, flashed |-> <<>>]

-----------------------------------------------------------------------------
(* Initial state: a fresh deployment, with or without an empty catalog file *)

Init ==
    /\ file \in {COURSE_FILE_Absent, COURSE_FILE_Holding(<<>>)}
    /\ pc = [p \in Requests |-> "idle"]
    /\ route = [p \in Requests |-> ""]
    /\ code = [p \in Requests |-> NoCode]
    /\ form = [p \in Requests |-> NoForm]
    /\ new_course = [p \in Requests |-> NoCourse]
    /\ courses = [p \in Requests |-> <<>>]
    /\ updated_courses = [p \in Requests |-> <<>>]
    /\ written = [p \in Requests |-> "no"]
    /\ flashed = [p \in Requests |-> <<>>]
    /\ response = [p \in Requests |-> NotYet]
    /\ pre = file
    /\ prev = NoPrev

\* no other request is in flight
Alone(p) == \A q \in Requests \ {p} : pc[q] \in {"idle", "left"}

\* the longest list in the file or on its way to it, and the appends that
\* have not loaded yet
Longest ==
    LET lens == {Len(load_courses(file))} \cup {Len(updated_courses[q]) : q \in Requests}
    IN  CHOOSE n \in lens : \A m \in lens : m <= n
Pending == Cardinality({q \in Requests : pc[q] = "save_load"})

\* Slot 1 takes a request that finds the server idle, slot 2 the one that
\* joins it ("left" once answered, until slot 1 is free again).  It joins
\* before the first has touched the file: an arrival touches nothing, so a
\* request that arrives later and reads or writes at the same points behaves
\* as one that arrived then
Shared(p) ==
    IF p = 1 THEN Alone(p)
    ELSE pc[1] \in {"catalog_load", "details_load", "save_load", "delete_load"}

\* there is room for one more record
Room(p) == Shared(p) /\ Longest + Pending < MaxCourses

\* a returned response goes out before the server does anything else
Delivered == \A q \in Requests : pc[q] # "done"

\* the request at slot p stands at one of the labels
At(p, labels) == Delivered /\ pc[p] \in labels

\* a request arrives at slot p for view function r
Arrive(p, r, c, f) ==
    /\ At(p, {"idle"})
    /\ route' = [route EXCEPT ![p] = r]
    /\ code' = [code EXCEPT ![p] = c]
    /\ form' = [form EXCEPT ![p] = f]
    /\ pre' = file
    /\ UNCHANGED <<courses, updated_courses, written>>

\* pre is the file at the arrival of a request that runs alone; while
\* requests overlap it follows the file
Track(p) == pre' = IF Alone(p) THEN pre ELSE file'

\* the view function returns resp having flashed ns
Return(p, resp, ns) ==
    /\ pc' = [pc EXCEPT ![p] = "done"]
    /\ response' = [response EXCEPT ![p] = resp]
    /\ flashed' = [flashed EXCEPT ![p] = ns]

\* the handler goes on to its next file access
Goto(p, label) ==
    /\ pc' = [pc EXCEPT ![p] = label]
    /\ response' = [response EXCEPT ![p] = NotYet]
    /\ flashed' = [flashed EXCEPT ![p] = <<>>]

-----------------------------------------------------------------------------
(* GET / *)

\* A handler that never touches the file is one step, independent of every
\* step of the other requests: it is taken between them, not among their steps.

index(p) ==
    /\ Alone(p)
    /\ Arrive(p, "index", NoCode, NoForm)
    /\ Return(p, Render("index.html", <<>>), <<>>)
    /\ UNCHANGED <<file, new_course, prev>>

(* GET /catalog *)

course_catalog(p) ==
    /\ Shared(p)
    /\ Arrive(p, "course_catalog", NoCode, NoForm)
    /\ Goto(p, "catalog_load")
    /\ UNCHANGED <<file, new_course, prev>>

CatalogLoad(p) ==
    /\ At(p, {"catalog_load"})
    /\ courses' = [courses EXCEPT ![p] = load_courses(file)]
    /\ Return(p, Render("course_catalog.html", load_courses(file)), <<>>)
    /\ UNCHANGED <<file, route, code, form, new_course, updated_courses,
                   written, prev>>
    /\ Track(p)

(* GET /course/<code> *)

course_details(p, c) ==
    /\ Shared(p)
    /\ Arrive(p, "course_details", c, NoForm)
    /\ Goto(p, "details_load")
    /\ UNCHANGED <<file, new_course, prev>>

DetailsLoad(p) ==
    /\ At(p, {"details_load"})
    /\ courses' = [courses EXCEPT ![p] = load_courses(file)]
    /\ LET course == FirstWithCode(load_courses(file), code[p]) IN
         IF course = <<>>
         THEN Return(p, RedirectToCatalog, <<NotFoundNotice(code[p])>>)
         ELSE Return(p, Render("course_details.html", course), <<>>)
    /\ UNCHANGED <<file, route, code, form, new_course, updated_courses,
                   written, prev>>
    /\ Track(p)

(* GET /add_course *)

add_course_form(p) ==
    /\ Alone(p)
    /\ Arrive(p, "add_course_get", NoCode, NoForm)
    /\ Return(p, Render("add_course.html", <<>>), <<>>)
    /\ UNCHANGED <<file, new_course, prev>>

(* POST /add_course *)

\* request.form.get(k) is None for some k: None.strip() raises
FieldMissing(f) == FormFields \ DOMAIN f # {}

\* not course_name or not course_code or not course_instructor
RequiredEmpty(f) ==
    \/ Strip(f["name"]) = <<>>
    \/ Strip(f["code"]) = <<>>
    \/ Strip(f["instructor"]) = <<>>

CourseOf(f) ==
    [name |-> Strip(f["name"]), code |-> Strip(f["code"]),
     instructor |-> Strip(f["instructor"]), semester |-> Strip(f["semester"])]

add_course(p, f) ==
    /\ Arrive(p, "add_course_post", NoCode, f)
    /\ IF FieldMissing(f)
       THEN /\ Alone(p)
            /\ Return(p, NoResponse, <<>>)
            /\ new_course' = [new_course EXCEPT ![p] = NoCourse]
       ELSE IF RequiredEmpty(f)
       THEN /\ Alone(p)
            /\ Return(p, Render("add_course.html", <<>>), <<RequiredNotice>>)
            /\ new_course' = [new_course EXCEPT ![p] = NoCourse]
       ELSE /\ Room(p)
            /\ Goto(p, "save_load")
            /\ new_course' = [new_course EXCEPT ![p] = CourseOf(f)]
    /\ UNCHANGED <<file, prev>>

\* save_courses: courses = load_courses(); courses.append(data)
SaveLoad(p) ==
    /\ At(p, {"save_load"})
    /\ courses' = [courses EXCEPT ![p] = load_courses(file)]
    /\ updated_courses' =
           [updated_courses EXCEPT ![p] = AppendCourse(load_courses(file), new_course[p])]
    /\ pc' = [pc EXCEPT ![p] = "save_open"]
    /\ UNCHANGED <<file, route, code, form, new_course, written, flashed,
                   response, prev>>
    /\ Track(p)

(* POST /delete_course/<code> *)

delete_course(p, c) ==
    /\ Shared(p)
    /\ Arrive(p, "delete_course", c, NoForm)
    /\ Goto(p, "delete_load")
    /\ UNCHANGED <<file, new_course, prev>>

DeleteLoad(p) ==
    /\ At(p, {"delete_load"})
    /\ courses' = [courses EXCEPT ![p] = load_courses(file)]
    /\ updated_courses' =
           [updated_courses EXCEPT ![p] = WithoutCode(load_courses(file), code[p])]
    /\ IF Len(load_courses(file)) = Len(WithoutCode(load_courses(file), code[p]))
       THEN Return(p, RedirectToCatalog, <<NotFoundNotice(code[p])>>)
       ELSE /\ pc' = [pc EXCEPT ![p] = "delete_open"]
            /\ UNCHANGED <<flashed, response>>
    /\ UNCHANGED <<file, route, code, form, new_course, written, prev>>
    /\ Track(p)

(* save_courses_to_file, and the caller's code after it *)

Writing(p) == At(p, {"save_open", "delete_open"})
Dumping(p) == At(p, {"save_dump", "delete_dump"})

\* a caller that flashes the notice of add_course in delete_course too
AfterSaveAdded(p) == Return(p, RedirectToCatalog, <<AddedNotice>>)

\* what the caller does once save_courses_to_file has returned
AfterSave(p) ==
    IF route[p] = "add_course_post"
    THEN Return(p, RedirectToCatalog, <<AddedNotice>>)
    ELSE Return(p, RedirectToCatalog, <<DeletedNotice>>)

\* open(COURSE_FILE, 'w') succeeds and truncates the file
WriteOpen(p) ==
    /\ Writing(p)
    /\ file' = OpenForWrite(file)
    /\ pc' = [pc EXCEPT ![p] = IF pc[p] = "save_open" THEN "save_dump" ELSE "delete_dump"]
    /\ UNCHANGED <<route, code, form, new_course, courses, updated_courses,
                   written, flashed, response, prev>>
    /\ Track(p)

\* open raises and nothing catches it before the view function's except
WriteOpenRaises(p) ==
    /\ Writing(p)
    /\ written' = [written EXCEPT ![p] = "open_failed"]
    /\ Return(p, NoResponse, <<>>)
    /\ UNCHANGED <<file, route, code, form, new_course, courses,
                   updated_courses, prev>>
    /\ Track(p)

\* open raises: the except branch logs, save_courses_to_file returns
WriteOpenFails(p) ==
    /\ Writing(p)
    /\ written' = [written EXCEPT ![p] = "open_failed"]
    /\ AfterSave(p)
    /\ UNCHANGED <<file, route, code, form, new_course, courses,
                   updated_courses, prev>>
    /\ Track(p)

\* json.dump and the close succeed
WriteDump(p) ==
    /\ Dumping(p)
    /\ file' = Dump(file, updated_courses[p])
    /\ written' = [written EXCEPT ![p] = "yes"]
    /\ AfterSave(p)
    /\ UNCHANGED <<route, code, form, new_course, courses, updated_courses,
                   prev>>
    /\ Track(p)

\* the write or the close raises (a full disk, an I/O error) with nothing
\* written: the except branch logs, save_courses_to_file returns
WriteDumpFails(p) ==
    /\ Dumping(p)
    /\ written' = [written EXCEPT ![p] = "dump_failed"]
    /\ AfterSave(p)
    /\ UNCHANGED <<file, route, code, form, new_course, courses,
                   updated_courses, prev>>
    /\ Track(p)

(* The response has gone out; the slot is free for the next request *)


Retire(p) ==
    /\ pc[p] = "done"
    /\ prev' = IF written[p] = "yes"
               THEN [route |-> route[p], code |-> code[p],
                     new_course |-> new_course[p], flashed |-> flashed[p]]
               ELSE NoPrev
    /\ pc' = [q \in Requests |->
                 IF q = p THEN (IF p = 1 \/ pc[1] = "idle" THEN "idle" ELSE "left")
                 ELSE IF pc[q] = "left" THEN "idle" ELSE pc[q]]
    /\ route' = [route EXCEPT ![p] = ""]
    /\ code' = [code EXCEPT ![p] = NoCode]
    /\ form' = [form EXCEPT ![p] = NoForm]
    /\ new_course' = [new_course EXCEPT ![p] = NoCourse]
    /\ courses' = [courses EXCEPT ![p] = <<>>]
    /\ updated_courses' = [updated_courses EXCEPT ![p] = <<>>]
    /\ written' = [written EXCEPT ![p] = "no"]
    /\ flashed' = [flashed EXCEPT ![p] = <<>>]
    /\ response' = [response EXCEPT ![p] = NotYet]
    /\ pre' = file
    /\ UNCHANGED file

-----------------------------------------------------------------------------
(* Specifications *)

Serve(p) ==
    \/ index(p)
    \/ course_catalog(p)
    \/ CatalogLoad(p)
    \/ \E c \in UrlCodes : course_details(p, c)
    \/ DetailsLoad(p)
    \/ add_course_form(p)
    \/ \E f \in Forms : add_course(p, f)
    \/ SaveLoad(p)
    \/ \E c \in UrlCodes : delete_course(p, c)
    \/ DeleteLoad(p)
    \/ WriteOpen(p)
    \/ WriteOpenFails(p)
    \/ WriteDump(p)
    \/ WriteDumpFails(p)
    \/ Retire(p)

\* requests interleave at their file accesses
Next == \E p \in Requests : Serve(p)

Spec == Init /\ [][Next]_vars

\* one request at a time: the next arrives when the last has been answered
SeqNext == Serve(1)

SeqSpec == Init /\ [][SeqNext]_vars

-----------------------------------------------------------------------------
(* Vocabulary of the properties *)

Done(p) == pc[p] = "done"

\* the positions of cs whose record has code c
Indices(cs, c) == {i \in 1..Len(cs) : cs[i].code = c}

\* the records of cs with a code other than c, in their order
Others(cs, c) == SelectSeq(cs, LAMBDA r : r.code # c)

Records(cs) == {cs[i] : i \in 1..Len(cs)}

RequiredFields == {"name", "code", "instructor"}

\* a posted form that has the required fields, one of them blank
SubmitsBlank(p) ==
    /\ Done(p)
    /\ route[p] = "add_course_post"
    /\ RequiredFields \subseteq DOMAIN form[p]
    /\ \E k \in RequiredFields : Strip(form[p][k]) = <<>>

\* a posted form that has the required fields, none blank, and no semester
SubmitsWithoutSemester(p) ==
    /\ Done(p)
    /\ route[p] = "add_course_post"
    /\ DOMAIN form[p] = RequiredFields
    /\ \A k \in RequiredFields : Strip(form[p][k]) # <<>>

\* save_courses ran for the request
Appends(p) == Done(p) /\ route[p] = "add_course_post" /\ written[p] # "no"

Deletes(p) == Done(p) /\ route[p] = "delete_course"

\* no blank and no whitespace at either end
Trimmed(s) == s # <<>> /\ Head(s) \notin Whitespace /\ s[Len(s)] \notin Whitespace

-----------------------------------------------------------------------------
(* C1 *)

-----------------------------------------------------------------------------
(* C2 *)

-----------------------------------------------------------------------------
(* C3 *)

\* C3 as stated: a POST /add_course whose name, code or instructor is empty
\* after trimming leaves the catalog unchanged, flashes the validation notice
\* and renders the add form again.
C3_BlankFieldRerendersForm ==
    \A p \in Requests :
        SubmitsBlank(p) =>
            /\ file = pre
            /\ flashed[p] = <<RequiredNotice>>
            /\ response[p] = Render("add_course.html", <<>>)

-----------------------------------------------------------------------------
(* C4 *)

\* C4 as stated: a POST /add_course with name, code and instructor filled in
\* and no semester field builds a record with an empty semester, appends it,
\* flashes the success notice and redirects to the list.
C4_AbsentSemesterIsEmpty ==
    \A p \in Requests :
        SubmitsWithoutSemester(p) =>
            /\ new_course[p] =
                 [name |-> Strip(form[p]["name"]), code |-> Strip(form[p]["code"]),
                  instructor |-> Strip(form[p]["instructor"]), semester |-> <<>>]
            /\ flashed[p] = <<AddedNotice>>
            /\ response[p] = RedirectToCatalog

-----------------------------------------------------------------------------
(* C5 *)

LoadLabels == {"catalog_load", "details_load", "save_load", "delete_load"}

\* C5: every call of load_courses returns to its caller, which goes on: with
\* the empty list when the file is absent or cannot be read or parsed, with
\* the stored list otherwise; and the call leaves the file as it is.
C5_LoadNeverFails ==
    [][\A p \in Requests :
         pc[p] \in LoadLabels /\ pc'[p] # pc[p] =>
            /\ file' = file
            /\ file.kind # "catalog" => courses'[p] = <<>>
            /\ file.kind = "catalog" => courses'[p] = file.data
            /\ response'[p].kind # "none"]_vars

\* the list view of a file that cannot be parsed: an empty catalog
C5_Witness ==
    \E p \in Requests :
        /\ Done(p)
        /\ route[p] = "course_catalog"
        /\ file.kind = "unreadable"
        /\ pre = file
        /\ response[p] = Render("course_catalog.html", <<>>)

-----------------------------------------------------------------------------
(* C6 *)

\* C6: a details request leaves the catalog unchanged; for a code no record
\* has it flashes "No course found with code 'c'." and redirects to the list;
\* for a code some record has it renders the first such record.
C6_DetailsOfCode ==
    \A p \in Requests :
        Done(p) /\ route[p] = "course_details" /\ pre.kind = "catalog" =>
            LET hits == Indices(pre.data, code[p]) IN
            /\ file = pre
            /\ IF hits = {}
               THEN /\ flashed[p] = <<NotFoundNotice(code[p])>>
                    /\ response[p] = RedirectToCatalog
               ELSE LET first == CHOOSE i \in hits : \A j \in hits : i <= j IN
                    /\ flashed[p] = <<>>
                    /\ response[p] =
                         Render("course_details.html", <<pre.data[first]>>)

\* details asked for a code that a catalog with records does not hold
C6_Witness ==
    \E p \in Requests :
        /\ Done(p)
        /\ route[p] = "course_details"
        /\ pre.kind = "catalog"
        /\ pre.data # <<>>
        /\ Indices(pre.data, code[p]) = {}
        /\ response[p] = RedirectToCatalog

-----------------------------------------------------------------------------
(* C7 *)

-----------------------------------------------------------------------------
(* C8 *)

\* C8: a save that goes through leaves in the file the saver's own list, the
\* catalog it loaded with its own change, whatever was saved since it loaded.
C8_LastWriterWins ==
    \A p \in Requests :
        Done(p) /\ written[p] = "yes" =>
            /\ file.kind = "catalog" => file.data = updated_courses[p]
            /\ updated_courses[p] =
                 IF route[p] = "add_course_post"
                 THEN courses[p] \o <<new_course[p]>>
                 ELSE Others(courses[p], code[p])

\* two appends both saved and both reported success; the record of the first
\* to save is not in the file
C8_LostAppendToAppend ==
    \E p \in Requests :
        /\ Appends(p)
        /\ written[p] = "yes"
        /\ flashed[p] = <<AddedNotice>>
        /\ prev.route = "add_course_post"
        /\ prev.flashed = <<AddedNotice>>
        /\ file.kind = "catalog"
        /\ prev.new_course \notin Records(file.data)

\* an append and a delete of another code both saved and both reported
\* success; the appended record is not in the file
C8_LostAppendToDelete ==
    \E p \in Requests :
        /\ Deletes(p)
        /\ written[p] = "yes"
        /\ flashed[p] = <<DeletedNotice>>
        /\ prev.route = "add_course_post"
        /\ prev.flashed = <<AddedNotice>>
        /\ prev.new_course.code # code[p]
        /\ file.kind = "catalog"
        /\ prev.new_course \notin Records(file.data)

\* a delete and an append both saved and both reported success; the deleted
\* records are back in the file
C8_LostDeleteToAppend ==
    \E p \in Requests :
        /\ Appends(p)
        /\ written[p] = "yes"
        /\ flashed[p] = <<AddedNotice>>
        /\ prev.route = "delete_course"
        /\ prev.flashed = <<DeletedNotice>>
        /\ prev.code # new_course[p].code
        /\ file.kind = "catalog"
        /\ Indices(file.data, prev.code) # {}

C8_Witness == C8_LostAppendToAppend \/ C8_LostAppendToDelete \/ C8_LostDeleteToAppend

-----------------------------------------------------------------------------
(* C9 *)

\* C9 as stated: when the write of the file fails the caller goes on as
\* after a write: success notice, redirect to the list; and the persisted
\* catalog is as it was before the request.
C9_FailedWriteKeepsCatalog ==
    \A p \in Requests :
        Done(p) /\ written[p] \in {"open_failed", "dump_failed"} =>
            /\ response[p] = RedirectToCatalog
            /\ flashed[p] =
                 <<IF route[p] = "add_course_post" THEN AddedNotice ELSE DeletedNotice>>
            /\ load_courses(file) = load_courses(pre)

\* C9, amended: when the write of the file fails the caller goes on as after
\* a write: success notice, redirect to the list.  The file is as it was
\* before the request when it could not be opened for writing; when the
\* failure comes after the open, the open has truncated the file, which no
\* longer holds a catalog and loads as the empty one.
C9_FailedWriteReportsSuccess ==
    \A p \in Requests :
        Done(p) /\ written[p] \in {"open_failed", "dump_failed"} =>
            /\ response[p] = RedirectToCatalog
            /\ flashed[p] =
                 <<IF route[p] = "add_course_post" THEN AddedNotice ELSE DeletedNotice>>
            /\ written[p] = "open_failed" => file = pre
            /\ written[p] = "dump_failed" =>
                 file.kind = "unreadable" /\ load_courses(file) = <<>>

\* an add whose dump failed on a catalog that had records
C9_Witness ==
    \E p \in Requests :
        /\ Appends(p)
        /\ written[p] = "dump_failed"
        /\ pre.kind = "catalog"
        /\ pre.data # <<>>
        /\ flashed[p] = <<AddedNotice>>

-----------------------------------------------------------------------------
(* C10 *)

\* C10: from an empty or absent catalog, every record of the persisted
\* catalog has a name, a code and an instructor that are not empty and have
\* no whitespace at either end.
C10_RecordsTrimmed ==
    \A r \in Records(load_courses(file)) :
        Trimmed(r.name) /\ Trimmed(r.code) /\ Trimmed(r.instructor)

\* two records of the persisted catalog with one code
C10_Witness ==
    \E i, j \in 1..Len(load_courses(file)) :
        i < j /\ file.data[i].code = file.data[j].code

====
